---- MODULE Spec2Model ----
(***************************************************************************)
(* The recipe dependency resolver of the RecipeSelector component:         *)
(* calculateDependencyTree (buildTree), getExecutionOrder (traverse),      *)
(* getTotalMaterials (collectMaterials), getBuildingGroups                 *)
(* (processRecipeForBuildings) and getTotalProductionCost, run against a   *)
(* recipe catalog.                                                         *)
(*                                                                         *)
(* JavaScript values are modelled as follows.  An object is a record; an   *)
(* absent property is an absent record field.  An array is a sequence.  A  *)
(* plain object used as a map (node.dependencies, withRecipes,             *)
(* buildingGroups) is a sequence of entries carrying their key, in the     *)
(* insertion order Object.values / Object.entries iterate in.  A node of   *)
(* the tree is never changed after buildTree returned it, so a reference   *)
(* to a node is modelled by the node's value.                              *)
(***************************************************************************)
EXTENDS Integers, Sequences, FiniteSets

\* Largest ingredient / product quantity of the catalogs explored.
MaxQty == 3

\* Keys of the catalog, in the order Object.entries(recipes) yields them.
RecipeNames == <<"r1", "r2", "r3">>

\* A selection that is no key of the catalog.
UnknownName == "unknown"

RecipeIdx == 1..Len(RecipeNames)

(***************************************************************************)
(* The catalogs.  A catalog is put together from a structure (which        *)
(* products each recipe makes and which ingredients it takes), quantities  *)
(* and costs.                                                              *)
(***************************************************************************)
ProductShapes == {"none", "b", "ab"}

IngredientShapes ==
    {<< >>, <<"a">>, <<"a", "b">>, <<"b", "x">>, <<"b", "b">>}

\* Buildings and cost of a recipe.
CostChoices ==
    { [buildings |-> <<"B1", "B2">>,
       cost |-> [labour |-> [hours |-> 1, minutes |-> 30], gold |-> 7]],
      [buildings |-> << >>,
       cost |-> [labour |-> [hours |-> 0, minutes |-> 45], gold |-> 5]],
      [buildings |-> <<"B2">>,
       cost |-> [labour |-> [hours |-> 0, minutes |-> 0], gold |-> 3]] }

Structures == [RecipeIdx -> [prod : ProductShapes, ing : IngredientShapes]]

Quantities == [RecipeIdx -> [p : 0..MaxQty, i : 1..MaxQty]]

Costs == [RecipeIdx -> CostChoices]

\* A diamond with an external ingredient: r3 takes a (made by r2) and b (made
\* by r1), r2 takes b and x, of which nothing makes x.
CoreStructures ==
    { <<[prod |-> "b", ing |-> << >>],
        [prod |-> "ab", ing |-> <<"b", "x">>],
        [prod |-> "none", ing |-> <<"a", "b">>]>> }

CoreQuantities ==
    { <<[p |-> 1, i |-> MaxQty],
        [p |-> MaxQty - 1, i |-> MaxQty - 1],
        [p |-> 0, i |-> 1]>> }

CoreCosts ==
    { <<[buildings |-> <<"B1", "B2">>,
         cost |-> [labour |-> [hours |-> 1, minutes |-> 30], gold |-> 7]],
        [buildings |-> << >>,
         cost |-> [labour |-> [hours |-> 0, minutes |-> 45], gold |-> 5]],
        [buildings |-> <<"B2">>,
         cost |-> [labour |-> [hours |-> 0, minutes |-> 0], gold |-> 3]]>> }

\* The ingredients of a recipe: the k-th name of the shape with its quantity.
MkIngredients(shape, q) ==
    [k \in 1..Len(shape) |->
        [name |-> shape[k], quantity |-> IF k = 1 THEN q.i ELSE MaxQty + 1 - q.i]]

\* One recipe file.  A single product is stored in the old format (a
\* `product` object and no `products` array).
MkRecipe(s, q, c) ==
    CASE s.prod = "none" ->
            [products |-> << >>,
             ingredients |-> MkIngredients(s.ing, q),
             buildings |-> c.buildings, cost |-> c.cost]
      [] s.prod = "b" ->
            [product |-> [name |-> "b", quantity |-> q.p],
             ingredients |-> MkIngredients(s.ing, q),
             buildings |-> c.buildings, cost |-> c.cost]
      [] s.prod = "ab" ->
            [products |-> <<[name |-> "a", quantity |-> q.p],
                            [name |-> "b", quantity |-> MaxQty - q.p]>>,
             ingredients |-> MkIngredients(s.ing, q),
             buildings |-> c.buildings, cost |-> c.cost]

\* Object.entries of a catalog: <<recipeName, recipeData>> pairs in key order.
MkCatalog(s, q, c) ==
    [k \in RecipeIdx |-> <<RecipeNames[k], MkRecipe(s[k], q[k], c[k])>>]

\* A catalog of two recipes: A makes 1 Plank from 2 Log in 1 h, Log is a raw
\* recipe that makes 1 Log in 10 min from nothing.
ExampleCatalog ==
    << <<"A", [products |-> <<[name |-> "Plank", quantity |-> 1]>>,
               ingredients |-> <<[name |-> "Log", quantity |-> 2]>>,
               buildings |-> <<"B1">>,
               cost |-> [labour |-> [hours |-> 1, minutes |-> 0], gold |-> 4]]>>,
       <<"Log", [products |-> <<[name |-> "Log", quantity |-> 1]>>,
                 ingredients |-> << >>,
                 buildings |-> << >>,
                 cost |-> [labour |-> [hours |-> 0, minutes |-> 10], gold |-> 1]]>> >>

Catalogs ==
    {MkCatalog(s, q, c) : s \in Structures, q \in CoreQuantities, c \in CoreCosts}
    \cup
    {MkCatalog(s, q, c) : s \in CoreStructures, q \in Quantities, c \in CoreCosts}
    \cup
    {MkCatalog(s, q, c) : s \in CoreStructures, q \in CoreQuantities, c \in Costs}
    \cup
    {ExampleCatalog}

(***************************************************************************)
(* JavaScript helpers.                                                     *)
(***************************************************************************)
\* null, and the sentinel object { circular: true }.
Null == [null |-> TRUE]

Circular == [circular |-> TRUE]

\* !node
IsNull(v) == "null" \in DOMAIN v

\* node.circular, undefined (falsy) on a node that has no such property.
IsCircular(v) == "circular" \in DOMAIN v /\ v.circular

\* Math.floor in the place of Math.ceil.
CeilAsFloor(x, y) == x \div y

\* Math.ceil(x / y) for integers x >= 0 and y > 0.
Ceil(x, y) == (x + y - 1) \div y

\* recipes[recipeName]: the data of a key (keys of an object are unique), Null
\* standing for undefined.
Lookup(catalog, recipeName) ==
    IF \E k \in DOMAIN catalog : catalog[k][1] = recipeName
    THEN catalog[CHOOSE k \in DOMAIN catalog : catalog[k][1] = recipeName][2]
    ELSE Null

getRecipeProducts(recipeData) ==
    IF IsNull(recipeData) THEN << >>
    ELSE IF "products" \in DOMAIN recipeData THEN recipeData.products
    ELSE IF "product" \in DOMAIN recipeData THEN <<recipeData.product>>
    ELSE << >>

\* findRecipesByProduct listing the producers last to first.
findRecipesByProductReversed(catalog, productName) ==
    LET found == SelectSeq(catalog,
                    LAMBDA e : \E k \in 1..Len(getRecipeProducts(e[2])) :
                                   getRecipeProducts(e[2])[k].name = productName)
    IN  [k \in DOMAIN found |-> found[Len(found) + 1 - k]]

\* Object.entries(recipes).filter(...): the entries producing productName.
findRecipesByProduct(catalog, productName) ==
    SelectSeq(catalog,
              LAMBDA e : \E k \in 1..Len(getRecipeProducts(e[2])) :
                             getRecipeProducts(e[2])[k].name = productName)

(***************************************************************************)
(* The recipe authoring form (RecipeGenerator): the state it starts from.  *)
(* A JavaScript string of the form is the sequence of its characters.      *)
(***************************************************************************)
\* JSON.stringify(recipeData, null, 4): the text is modelled by the value it
\* denotes, tagged as a text; two recipeData values get the same text only
\* when they are equal.
JSONstringify(recipeData) == [json |-> recipeData]

\* The empty string held by generatedContent before a preview.
EmptyContent == [text |-> << >>]

\* useState(...) of App.js, which is also what resetForm stores.
InitialRecipe ==
    [products    |-> <<[name |-> << >>, quantity |-> 1]>>,
     ingredients |-> << >>,
     buildings   |-> << >>,
     cost        |-> [labour |-> [hours |-> 0, minutes |-> 0], gold |-> 0]]

InitialGeneratorState ==
    [recipe           |-> InitialRecipe,
     previewMode      |-> FALSE,
     generatedContent |-> EmptyContent,
     fileName         |-> << >>]

(***************************************************************************)
(* The state: the catalog (the imported `recipes`), the selector state,    *)
(* the closure variables of calculateDependencyTree while buildTree runs   *)
(* (`stack` is the JavaScript call stack of buildTree), and the memoised   *)
(* values of one render; and the state of the recipe authoring form with   *)
(* the name of the file its last download was given.                       *)
(***************************************************************************)
VARIABLES recipes, selectedRecipe, pc, stack, tree, visited, processing,
          calculateDependencyTree, getExecutionOrder, getTotalMaterials,
          getBuildingGroups, getBuildingEfficiency, getTotalProductionCost,
          earlier, generatorState, download

vars == <<recipes, selectedRecipe, pc, stack, tree, visited, processing,
          calculateDependencyTree, getExecutionOrder, getTotalMaterials,
          getBuildingGroups, getBuildingEfficiency, getTotalProductionCost,
          earlier, generatorState, download>>

\* The authoring form's state, which the selector never writes.
formVars == <<generatorState, download>>

\* What a render never writes: the catalog, the selection, the record of
\* the render before (see handleRecipeChange), and the form.
inputVars == <<recipes, selectedRecipe, earlier, formVars>>

resolverVars == <<stack, tree, visited, processing>>

memoVars == <<calculateDependencyTree, getExecutionOrder, getTotalMaterials,
              getBuildingGroups, getBuildingEfficiency, getTotalProductionCost>>

\* A memo of the current render that has not been evaluated yet (the
\* memos that are arrays or maps are empty until then).
NotComputed == [notComputed |-> TRUE]

Init ==
    /\ recipes \in Catalogs
    /\ selectedRecipe = ""
    /\ pc = "idle"
    /\ stack = << >>
    /\ tree = << >>
    /\ visited = {}
    /\ processing = {}
    /\ calculateDependencyTree = NotComputed
    /\ getExecutionOrder = << >>
    /\ getTotalMaterials = NotComputed
    /\ getBuildingGroups = << >>
    /\ getBuildingEfficiency = << >>
    /\ getTotalProductionCost = NotComputed
    /\ earlier = NotComputed
    /\ generatorState = InitialGeneratorState
    /\ download = << >>

\* Object.keys(recipes)
CatalogKeys == {recipes[k][1] : k \in DOMAIN recipes}

\* The values the selection can take: the options of the Autocomplete (the
\* keys of the catalog), a cleared field (null, stored as ''), and a value
\* handed down in selectorState that is no key of the catalog.
Selections == CatalogKeys \cup {"", UnknownName}

\* The selection and the memoised values of the render that is on screen.
RenderOf ==
    [selectedRecipe |-> selectedRecipe,
     calculateDependencyTree |-> calculateDependencyTree,
     getExecutionOrder |-> getExecutionOrder,
     getTotalMaterials |-> getTotalMaterials,
     getBuildingGroups |-> getBuildingGroups,
     getBuildingEfficiency |-> getBuildingEfficiency,
     getTotalProductionCost |-> getTotalProductionCost]

\* handleRecipeChange with tree and visited declared outside the memo, so
\* that they outlive the evaluation.
handleRecipeChangeKeepingClosure(newValue) ==
    /\ pc \in {"idle", "rendered"}
    /\ selectedRecipe' = newValue
    /\ pc' = "calculateDependencyTree"
    /\ stack' = << >>
    /\ processing' = {}
    /\ calculateDependencyTree' = NotComputed
    /\ getExecutionOrder' = << >>
    /\ getTotalMaterials' = NotComputed
    /\ getBuildingGroups' = << >>
    /\ getBuildingEfficiency' = << >>
    /\ getTotalProductionCost' = NotComputed
    /\ earlier' = IF pc = "rendered" /\ newValue = selectedRecipe
                  THEN RenderOf
                  ELSE NotComputed
    /\ UNCHANGED <<recipes, tree, visited, formVars>>

\* handleRecipeChange: stores newValue || ''.  The render that follows
\* evaluates the memos below in source order, each from scratch (tree,
\* visited and processing are fresh in every evaluation).  When the root on
\* screen is resolved once more, `earlier` keeps what the render on screen
\* showed, for the two to be compared; it is read by no action.
handleRecipeChange(newValue) ==
    /\ pc \in {"idle", "rendered"}
    /\ selectedRecipe' = newValue
    /\ pc' = "calculateDependencyTree"
    /\ stack' = << >>
    /\ tree' = << >>
    /\ visited' = {}
    /\ processing' = {}
    /\ calculateDependencyTree' = NotComputed
    /\ getExecutionOrder' = << >>
    /\ getTotalMaterials' = NotComputed
    /\ getBuildingGroups' = << >>
    /\ getBuildingEfficiency' = << >>
    /\ getTotalProductionCost' = NotComputed
    /\ earlier' = IF pc = "rendered" /\ newValue = selectedRecipe
                  THEN RenderOf
                  ELSE NotComputed
    /\ UNCHANGED <<recipes, formVars>>

(***************************************************************************)
(* calculateDependencyTree / buildTree.                                    *)
(***************************************************************************)
\* NewNode with the minutes of totalCost carried into its hours.
NewNodeCarryingMinutes(recipeName, recipeData, multiplier, depth) ==
    [name |-> recipeName,
     products |-> getRecipeProducts(recipeData),
     ingredients |-> recipeData.ingredients,
     buildings |-> recipeData.buildings,
     cost |-> recipeData.cost,
     multiplier |-> multiplier,
     depth |-> depth,
     dependencies |-> << >>,
     missingRecipes |-> << >>,
     totalQuantity |-> multiplier,
     totalCost |->
        [labour |-> [hours |-> recipeData.cost.labour.hours * multiplier
                               + (recipeData.cost.labour.minutes * multiplier) \div 60,
                     minutes |-> (recipeData.cost.labour.minutes * multiplier) % 60],
         gold |-> recipeData.cost.gold * multiplier]]

\* The node buildTree creates before it processes the ingredients.
NewNode(recipeName, recipeData, multiplier, depth) ==
    [name |-> recipeName,
     products |-> getRecipeProducts(recipeData),
     ingredients |-> recipeData.ingredients,
     buildings |-> recipeData.buildings,
     cost |-> recipeData.cost,
     multiplier |-> multiplier,
     depth |-> depth,
     dependencies |-> << >>,
     missingRecipes |-> << >>,
     totalQuantity |-> multiplier,
     totalCost |-> [labour |-> [hours |-> recipeData.cost.labour.hours * multiplier,
                                minutes |-> recipeData.cost.labour.minutes * multiplier],
                    gold |-> recipeData.cost.gold * multiplier]]

\* A frame of buildTree: the node under construction, the index of the
\* ingredient the forEach is at, and the locals of the callback that waits
\* for a recursive call to return.
NewFrame(node) ==
    [node |-> node, i |-> 1, quantityNeeded |-> 0, subMultiplier |-> 0]

\* obj[key] = value on a plain object: a new key goes last, an existing key
\* keeps its place.
SetKey(obj, key, value) ==
    IF \E k \in DOMAIN obj : obj[k].key = key
    THEN [k \in DOMAIN obj |-> IF obj[k].key = key THEN value ELSE obj[k]]
    ELSE Append(obj, value)

\* node.dependencies[ingredient.name] = { recipe, quantityNeeded, multiplier }
SetDependency(node, ingredientName, subTree, quantityNeeded, subMultiplier) ==
    [node EXCEPT !.dependencies =
        SetKey(@, ingredientName,
               [key |-> ingredientName,
                recipe |-> subTree,
                quantityNeeded |-> quantityNeeded,
                multiplier |-> subMultiplier])]

\* tree[recipeName], Null standing for undefined.
TreeGet(t, recipeName) ==
    IF \E k \in DOMAIN t : t[k].key = recipeName
    THEN t[CHOOSE k \in DOMAIN t : t[k].key = recipeName].node
    ELSE Null

Top == stack[Len(stack)]

Pop(s) == SubSeq(s, 1, Len(s) - 1)

ReplaceTop(s, f) == [s EXCEPT ![Len(s)] = f]

\* The locals of the forEach callback for the ingredient the top frame is at.
CurIngredient == Top.node.ingredients[Top.i]

producingRecipes == findRecipesByProduct(recipes, CurIngredient.name)

subRecipeName == producingRecipes[1][1]

subRecipeData == producingRecipes[1][2]

quantityNeeded == CurIngredient.quantity * Top.node.multiplier

\* matchingProduct?.quantity || 1
productQuantity ==
    LET subProducts == getRecipeProducts(subRecipeData)
        hits == {k \in DOMAIN subProducts : subProducts[k].name = CurIngredient.name}
    IN  IF hits = {} THEN 1
        ELSE LET k == CHOOSE k \in hits : \A j \in hits : k <= j
             IN  IF subProducts[k].quantity = 0 THEN 1 ELSE subProducts[k].quantity

subMultiplier == Ceil(quantityNeeded, productQuantity)

InForEach ==
    /\ pc = "calculateDependencyTree"
    /\ stack # << >>
    /\ Top.i <= Len(Top.node.ingredients)

\* `if (!selectedRecipe) return null`
NoSelection ==
    /\ pc = "calculateDependencyTree"
    /\ stack = << >>
    /\ selectedRecipe = ""
    /\ calculateDependencyTree' = Null
    /\ pc' = "getExecutionOrder"
    /\ UNCHANGED <<inputVars, resolverVars, getExecutionOrder,
                   getTotalMaterials, getBuildingGroups, getBuildingEfficiency,
                   getTotalProductionCost>>

\* buildTree(selectedRecipe) when recipes[selectedRecipe] is undefined: the
\* name is added to processing, deleted again, and null is returned.
BuildTreeRootNotFound ==
    /\ pc = "calculateDependencyTree"
    /\ stack = << >>
    /\ selectedRecipe # ""
    /\ selectedRecipe \notin processing
    /\ selectedRecipe \notin visited
    /\ IsNull(Lookup(recipes, selectedRecipe))
    /\ processing' = (processing \cup {selectedRecipe}) \ {selectedRecipe}
    /\ calculateDependencyTree' = Null
    /\ pc' = "getExecutionOrder"
    /\ UNCHANGED <<inputVars, stack, tree, visited, getExecutionOrder,
                   getTotalMaterials, getBuildingGroups, getBuildingEfficiency,
                   getTotalProductionCost>>

\* buildTree(selectedRecipe) with multiplier = 1 and depth = 0, up to the
\* start of the forEach.
BuildTreeRoot ==
    /\ pc = "calculateDependencyTree"
    /\ stack = << >>
    /\ selectedRecipe # ""
    /\ selectedRecipe \notin processing
    /\ selectedRecipe \notin visited
    /\ ~IsNull(Lookup(recipes, selectedRecipe))
    /\ processing' = processing \cup {selectedRecipe}
    /\ stack' = <<NewFrame(NewNode(selectedRecipe, Lookup(recipes, selectedRecipe), 1, 0))>>
    /\ UNCHANGED <<inputVars, pc, tree, visited, memoVars>>

\* IngredientMissing recording the quantity of one run only.
IngredientMissingUnscaled ==
    /\ InForEach
    /\ Len(producingRecipes) = 0
    /\ stack' = ReplaceTop(stack,
            [Top EXCEPT !.i = @ + 1,
                        !.node.missingRecipes =
                            Append(@, [name |-> CurIngredient.name,
                                       quantity |-> CurIngredient.quantity])])
    /\ UNCHANGED <<inputVars, pc, tree, visited, processing, memoVars>>

\* An ingredient no recipe produces: an entry of node.missingRecipes.
IngredientMissing ==
    /\ InForEach
    /\ Len(producingRecipes) = 0
    /\ stack' = ReplaceTop(stack,
            [Top EXCEPT !.i = @ + 1,
                        !.node.missingRecipes =
                            Append(@, [name |-> CurIngredient.name,
                                       quantity |-> CurIngredient.quantity
                                                    * Top.node.multiplier])])
    /\ UNCHANGED <<inputVars, pc, tree, visited, processing, memoVars>>

\* IngredientCircular without the `processing.has` test: the producer is
\* expanded again.
IngredientCircularRecursing ==
    /\ InForEach
    /\ Len(producingRecipes) > 0
    /\ subRecipeName \in processing
    /\ stack' = Append(
            ReplaceTop(stack, [Top EXCEPT !.quantityNeeded = quantityNeeded,
                                          !.subMultiplier = subMultiplier]),
            NewFrame(NewNode(subRecipeName, subRecipeData, subMultiplier,
                             Top.node.depth + 1)))
    /\ UNCHANGED <<inputVars, pc, tree, visited, processing, memoVars>>

\* The recursive call returns { circular: true }: the producer is being
\* processed.
IngredientCircular ==
    /\ InForEach
    /\ Len(producingRecipes) > 0
    /\ subRecipeName \in processing
    /\ stack' = ReplaceTop(stack,
            [Top EXCEPT !.i = @ + 1,
                        !.node = SetDependency(@, CurIngredient.name, Circular,
                                               quantityNeeded, subMultiplier)])
    /\ UNCHANGED <<inputVars, pc, tree, visited, processing, memoVars>>

\* IngredientVisited without the `visited.has` test: a producer that has been
\* resolved before is expanded once more, for the quantity needed now.
IngredientVisitedRebuilding ==
    /\ InForEach
    /\ Len(producingRecipes) > 0
    /\ subRecipeName \notin processing
    /\ subRecipeName \in visited
    /\ stack' = Append(
            ReplaceTop(stack, [Top EXCEPT !.quantityNeeded = quantityNeeded,
                                          !.subMultiplier = subMultiplier]),
            NewFrame(NewNode(subRecipeName, Lookup(recipes, subRecipeName),
                             subMultiplier, Top.node.depth + 1)))
    /\ processing' = processing \cup {subRecipeName}
    /\ UNCHANGED <<inputVars, pc, tree, visited, memoVars>>

\* IngredientVisited answering { circular: true } for a resolved producer.
IngredientVisitedAsCircular ==
    /\ InForEach
    /\ Len(producingRecipes) > 0
    /\ subRecipeName \notin processing
    /\ subRecipeName \in visited
    /\ stack' = ReplaceTop(stack,
            [Top EXCEPT !.i = @ + 1,
                        !.node = SetDependency(@, CurIngredient.name, Circular,
                                               quantityNeeded, subMultiplier)])
    /\ UNCHANGED <<inputVars, pc, tree, visited, processing, memoVars>>

\* The recursive call returns tree[recipeName] || { circular: true }: the
\* producer has been resolved before.
IngredientVisited ==
    /\ InForEach
    /\ Len(producingRecipes) > 0
    /\ subRecipeName \notin processing
    /\ subRecipeName \in visited
    /\ LET found == TreeGet(tree, subRecipeName)
           subTree == IF IsNull(found) THEN Circular ELSE found
       IN  stack' = ReplaceTop(stack,
                [Top EXCEPT !.i = @ + 1,
                            !.node = SetDependency(@, CurIngredient.name, subTree,
                                                   quantityNeeded, subMultiplier)])
    /\ UNCHANGED <<inputVars, pc, tree, visited, processing, memoVars>>

\* IngredientExpand working out the total cost in place, in the cost object
\* of the recipe: cost.gold *= multiplier.
IngredientExpandScalingInPlace ==
    /\ InForEach
    /\ Len(producingRecipes) > 0
    /\ subRecipeName \notin processing
    /\ subRecipeName \notin visited
    /\ ~IsNull(Lookup(recipes, subRecipeName))
    /\ recipes' = [k \in DOMAIN recipes |->
                      IF recipes[k][1] = subRecipeName
                      THEN <<recipes[k][1],
                             [recipes[k][2] EXCEPT !.cost.gold = @ * subMultiplier]>>
                      ELSE recipes[k]]
    /\ stack' = Append(
            ReplaceTop(stack, [Top EXCEPT !.quantityNeeded = quantityNeeded,
                                          !.subMultiplier = subMultiplier]),
            NewFrame(NewNode(subRecipeName, Lookup(recipes, subRecipeName),
                             subMultiplier, Top.node.depth + 1)))
    /\ processing' = processing \cup {subRecipeName}
    /\ UNCHANGED <<selectedRecipe, earlier, formVars, pc, tree, visited, memoVars>>

\* The recursive call expands the producer: a new frame, up to the start of
\* its forEach.  (recipes[subRecipeName] is defined, subRecipeName being a key
\* of recipes; were it not, null would come back and the ingredient be
\* dropped.)
IngredientExpand ==
    /\ InForEach
    /\ Len(producingRecipes) > 0
    /\ subRecipeName \notin processing
    /\ subRecipeName \notin visited
    /\ IF IsNull(Lookup(recipes, subRecipeName))
       THEN /\ stack' = ReplaceTop(stack, [Top EXCEPT !.i = @ + 1])
            /\ processing' = (processing \cup {subRecipeName}) \ {subRecipeName}
       ELSE /\ stack' = Append(
                    ReplaceTop(stack, [Top EXCEPT !.quantityNeeded = quantityNeeded,
                                                  !.subMultiplier = subMultiplier]),
                    NewFrame(NewNode(subRecipeName, Lookup(recipes, subRecipeName),
                                     subMultiplier, Top.node.depth + 1)))
            /\ processing' = processing \cup {subRecipeName}
    /\ UNCHANGED <<inputVars, pc, tree, visited, memoVars>>

\* BuildTreeReturn without `processing.delete(recipeName)`.
BuildTreeReturnKeepingProcessing ==
    /\ pc = "calculateDependencyTree"
    /\ stack # << >>
    /\ Top.i > Len(Top.node.ingredients)
    /\ LET node == Top.node
           rest == Pop(stack)
       IN  /\ tree' = SetKey(tree, node.name, [key |-> node.name, node |-> node])
           /\ visited' = visited \cup {node.name}
           /\ processing' = processing
           /\ IF rest = << >>
              THEN /\ stack' = rest
                   /\ calculateDependencyTree' = node
                   /\ pc' = "getExecutionOrder"
              ELSE LET caller == rest[Len(rest)]
                       ingredient == caller.node.ingredients[caller.i]
                   IN  /\ stack' = ReplaceTop(rest,
                                [caller EXCEPT
                                    !.i = @ + 1,
                                    !.quantityNeeded = 0,
                                    !.subMultiplier = 0,
                                    !.node = SetDependency(@, ingredient.name, node,
                                                           caller.quantityNeeded,
                                                           caller.subMultiplier)])
                       /\ calculateDependencyTree' = calculateDependencyTree
                       /\ pc' = pc
    /\ UNCHANGED <<inputVars, getExecutionOrder, getTotalMaterials,
                   getBuildingGroups, getBuildingEfficiency,
                   getTotalProductionCost>>

\* The forEach of the top frame is over: the node is stored in tree, marked
\* visited, unmarked processing and returned, to the forEach callback of the
\* caller (which records the dependency) or, from the outermost call, as the
\* value of calculateDependencyTree.
BuildTreeReturn ==
    /\ pc = "calculateDependencyTree"
    /\ stack # << >>
    /\ Top.i > Len(Top.node.ingredients)
    /\ LET node == Top.node
           rest == Pop(stack)
       IN  /\ tree' = SetKey(tree, node.name, [key |-> node.name, node |-> node])
           /\ visited' = visited \cup {node.name}
           /\ processing' = processing \ {node.name}
           /\ IF rest = << >>
              THEN /\ stack' = rest
                   /\ calculateDependencyTree' = node
                   /\ pc' = "getExecutionOrder"
              ELSE LET caller == rest[Len(rest)]
                       ingredient == caller.node.ingredients[caller.i]
                   IN  /\ stack' = ReplaceTop(rest,
                                [caller EXCEPT
                                    !.i = @ + 1,
                                    !.quantityNeeded = 0,
                                    !.subMultiplier = 0,
                                    !.node = SetDependency(@, ingredient.name, node,
                                                           caller.quantityNeeded,
                                                           caller.subMultiplier)])
                       /\ calculateDependencyTree' = calculateDependencyTree
                       /\ pc' = pc
    /\ UNCHANGED <<inputVars, getExecutionOrder, getTotalMaterials,
                   getBuildingGroups, getBuildingEfficiency,
                   getTotalProductionCost>>

(***************************************************************************)
(* getExecutionOrder / traverse.  The closure variables `ordered` and      *)
(* `visited` are threaded through as the record st.                        *)
(***************************************************************************)
RECURSIVE traverse(_, _)
RECURSIVE traverseDeps(_, _, _)
\* traverse adding the node before it processes the dependencies.
traversePreOrder(node, st) ==
    IF IsNull(node) \/ IsCircular(node) \/ node.name \in st.visited THEN st
    ELSE traverseDeps(node.dependencies, 1,
                      [ordered |-> Append(st.ordered, node),
                       visited |-> st.visited \cup {node.name}])

\* traverse without the test of visited.
traverseRepeating(node, st) ==
    IF IsNull(node) \/ IsCircular(node) THEN st
    ELSE LET after == traverseDeps(node.dependencies, 1, st)
         IN  [ordered |-> Append(after.ordered, node),
              visited |-> after.visited \cup {node.name}]

traverse(node, st) ==
    IF IsNull(node) \/ IsCircular(node) \/ node.name \in st.visited THEN st
    ELSE LET after == traverseDeps(node.dependencies, 1, st)
         IN  IF node.name \notin after.visited
             THEN [ordered |-> Append(after.ordered, node),
                   visited |-> after.visited \cup {node.name}]
             ELSE after

\* Object.values(node.dependencies).forEach(dep => traverse(dep.recipe))
traverseDeps(deps, k, st) ==
    IF k > Len(deps) THEN st
    ELSE traverseDeps(deps, k + 1, traverse(deps[k].recipe, st))

ExecutionOrderOf(root) ==
    IF IsNull(root) THEN << >>
    ELSE traverse(root, [ordered |-> << >>, visited |-> {}]).ordered

GetExecutionOrder ==
    /\ pc = "getExecutionOrder"
    /\ getExecutionOrder' = ExecutionOrderOf(calculateDependencyTree)
    /\ pc' = "getTotalMaterials"
    /\ UNCHANGED <<inputVars, resolverVars, calculateDependencyTree,
                   getTotalMaterials, getBuildingGroups, getBuildingEfficiency,
                   getTotalProductionCost>>

(***************************************************************************)
(* getTotalMaterials / collectMaterials.                                   *)
(***************************************************************************)
\* AddTo storing the quantity in the place of the sum: obj[key] = quantity.
AddToOverwriting(obj, key, quantity) ==
    IF \E k \in DOMAIN obj : obj[k].key = key
    THEN [k \in DOMAIN obj |->
            IF obj[k].key = key
            THEN [key |-> key, value |-> quantity]
            ELSE obj[k]]
    ELSE Append(obj, [key |-> key, value |-> quantity])

\* obj[key] = (obj[key] || 0) + quantity
AddTo(obj, key, quantity) ==
    IF \E k \in DOMAIN obj : obj[k].key = key
    THEN [k \in DOMAIN obj |->
            IF obj[k].key = key
            THEN [key |-> key, value |-> obj[k].value + quantity]
            ELSE obj[k]]
    ELSE Append(obj, [key |-> key, value |-> quantity])

\* addProducts counting the products of one run only.
RECURSIVE addProductsUnscaled(_, _, _, _)
addProductsUnscaled(products, k, multiplier, withRecipes) ==
    IF k > Len(products) THEN withRecipes
    ELSE addProductsUnscaled(products, k + 1, multiplier,
            IF products[k].name # ""
            THEN AddTo(withRecipes, products[k].name, products[k].quantity)
            ELSE withRecipes)

\* node.products.forEach(...) into withRecipes
RECURSIVE addProducts(_, _, _, _)
addProducts(products, k, multiplier, withRecipes) ==
    IF k > Len(products) THEN withRecipes
    ELSE addProducts(products, k + 1, multiplier,
            IF products[k].name # ""
            THEN AddTo(withRecipes, products[k].name,
                       products[k].quantity * multiplier)
            ELSE withRecipes)

\* node.missingRecipes.forEach(...) into withoutRecipes
RECURSIVE addMissing(_, _, _)
addMissing(missing, k, withoutRecipes) ==
    IF k > Len(missing) THEN withoutRecipes
    ELSE addMissing(missing, k + 1,
                    AddTo(withoutRecipes, missing[k].name, missing[k].quantity))

RECURSIVE collectMaterials(_, _)
RECURSIVE collectDeps(_, _, _)
\* collectMaterials counting the products of every node, not of the nodes
\* without dependencies only.
collectMaterialsEveryNode(node, st) ==
    IF IsNull(node) \/ IsCircular(node) \/ node.name \in st.visited THEN st
    ELSE LET st1 == [st EXCEPT !.visited = @ \cup {node.name}]
             st2 == collectDeps(node.dependencies, 1,
                        [st1 EXCEPT !.withRecipes =
                            addProducts(node.products, 1, node.multiplier, @)])
         IN  [st2 EXCEPT !.withoutRecipes = addMissing(node.missingRecipes, 1, @)]

collectMaterials(node, st) ==
    IF IsNull(node) \/ IsCircular(node) \/ node.name \in st.visited THEN st
    ELSE LET st1 == [st EXCEPT !.visited = @ \cup {node.name}]
             st2 == IF Len(node.dependencies) = 0
                    THEN [st1 EXCEPT !.withRecipes =
                            addProducts(node.products, 1, node.multiplier, @)]
                    ELSE collectDeps(node.dependencies, 1, st1)
         IN  [st2 EXCEPT !.withoutRecipes = addMissing(node.missingRecipes, 1, @)]

collectDeps(deps, k, st) ==
    IF k > Len(deps) THEN st
    ELSE collectDeps(deps, k + 1, collectMaterials(deps[k].recipe, st))

TotalMaterialsOf(root) ==
    IF IsNull(root) THEN [withRecipes |-> << >>, withoutRecipes |-> << >>]
    ELSE LET st == collectMaterials(root, [withRecipes |-> << >>,
                                           withoutRecipes |-> << >>,
                                           visited |-> {}])
         IN  [withRecipes |-> st.withRecipes, withoutRecipes |-> st.withoutRecipes]

GetTotalMaterials ==
    /\ pc = "getTotalMaterials"
    /\ getTotalMaterials' = TotalMaterialsOf(calculateDependencyTree)
    /\ pc' = "getBuildingGroups"
    /\ UNCHANGED <<inputVars, resolverVars, calculateDependencyTree,
                   getExecutionOrder, getBuildingGroups, getBuildingEfficiency,
                   getTotalProductionCost>>

(***************************************************************************)
(* getBuildingGroups / processRecipeForBuildings.                          *)
(***************************************************************************)
MinutesPerHour == 60

\* AddToBuilding adding the gold of one run only.
AddToBuildingUnscaled(groups, building, node) ==
    LET present == \E k \in DOMAIN groups : groups[k].key = building
        created == IF present THEN groups
                   ELSE Append(groups,
                               [key |-> building,
                                recipes |-> << >>,
                                totalTime |-> [hours |-> 0, minutes |-> 0],
                                totalGold |-> 0,
                                totalRecipes |-> 0])
    IN  [k \in DOMAIN created |->
            IF created[k].key # building THEN created[k]
            ELSE [created[k] EXCEPT
                    !.recipes = Append(@, [name |-> node.name,
                                           products |-> node.products,
                                           multiplier |-> node.multiplier,
                                           cost |-> node.cost]),
                    !.totalTime.hours = @ + node.cost.labour.hours * node.multiplier,
                    !.totalTime.minutes = @ + node.cost.labour.minutes * node.multiplier,
                    !.totalGold = @ + node.cost.gold,
                    !.totalRecipes = @ + 1]]

\* The body of node.buildings.forEach for one building.
AddToBuilding(groups, building, node) ==
    LET present == \E k \in DOMAIN groups : groups[k].key = building
        created == IF present THEN groups
                   ELSE Append(groups,
                               [key |-> building,
                                recipes |-> << >>,
                                totalTime |-> [hours |-> 0, minutes |-> 0],
                                totalGold |-> 0,
                                totalRecipes |-> 0])
    IN  [k \in DOMAIN created |->
            IF created[k].key # building THEN created[k]
            ELSE [key |-> building,
                  recipes |-> Append(created[k].recipes,
                                     [name |-> node.name,
                                      products |-> node.products,
                                      multiplier |-> node.multiplier,
                                      cost |-> node.cost]),
                  totalTime |->
                      [hours |-> created[k].totalTime.hours
                                 + node.cost.labour.hours * node.multiplier,
                       minutes |-> created[k].totalTime.minutes
                                   + node.cost.labour.minutes * node.multiplier],
                  totalGold |-> created[k].totalGold + node.cost.gold * node.multiplier,
                  totalRecipes |-> created[k].totalRecipes + 1]]

RECURSIVE addBuildings(_, _, _, _)
addBuildings(buildings, k, node, groups) ==
    IF k > Len(buildings) THEN groups
    ELSE addBuildings(buildings, k + 1, node, AddToBuilding(groups, buildings[k], node))

RECURSIVE processRecipeForBuildings(_, _)
RECURSIVE processDeps(_, _, _)
\* processRecipeForBuildings returning early from a recipe that lists no
\* building, before it goes through the dependencies.
processRecipeForBuildingsSkipping(node, st) ==
    IF IsNull(node) \/ IsCircular(node) \/ node.name \in st.visited THEN st
    ELSE IF Len(node.buildings) = 0
         THEN [st EXCEPT !.visited = @ \cup {node.name}]
         ELSE LET st1 == [groups |-> addBuildings(node.buildings, 1, node, st.groups),
                          visited |-> st.visited \cup {node.name}]
              IN  processDeps(node.dependencies, 1, st1)

processRecipeForBuildings(node, st) ==
    IF IsNull(node) \/ IsCircular(node) \/ node.name \in st.visited THEN st
    ELSE LET st1 == [groups |-> addBuildings(node.buildings, 1, node, st.groups),
                     visited |-> st.visited \cup {node.name}]
         IN  processDeps(node.dependencies, 1, st1)

processDeps(deps, k, st) ==
    IF k > Len(deps) THEN st
    ELSE processDeps(deps, k + 1, processRecipeForBuildings(deps[k].recipe, st))

\* NormalizeGroup reducing the minutes without adding the hours.
NormalizeGroupWithoutCarry(group) ==
    IF group.totalTime.minutes >= MinutesPerHour
    THEN [group EXCEPT !.totalTime.minutes = @ % MinutesPerHour]
    ELSE group

\* Convert excess minutes to hours.
NormalizeGroup(group) ==
    IF group.totalTime.minutes >= MinutesPerHour
    THEN [group EXCEPT
            !.totalTime = [hours |-> group.totalTime.hours
                                     + group.totalTime.minutes \div MinutesPerHour,
                           minutes |-> group.totalTime.minutes % MinutesPerHour]]
    ELSE group

BuildingGroupsOf(root) ==
    IF IsNull(root) THEN << >>
    ELSE LET groups == processRecipeForBuildings(root, [groups |-> << >>,
                                                        visited |-> {}]).groups
         IN  [k \in DOMAIN groups |-> NormalizeGroup(groups[k])]

GetBuildingGroups ==
    /\ pc = "getBuildingGroups"
    /\ getBuildingGroups' = BuildingGroupsOf(calculateDependencyTree)
    /\ pc' = "getBuildingEfficiency"
    /\ UNCHANGED <<inputVars, resolverVars, calculateDependencyTree,
                   getExecutionOrder, getTotalMaterials, getBuildingEfficiency,
                   getTotalProductionCost>>

(***************************************************************************)
(* getBuildingEfficiency.  A JavaScript value that is a number or a string *)
(* is a record: [number |-> n] is the number n, and [digits |-> n,         *)
(* fractionDigits |-> f] is the string toFixed(f) returns, the decimal     *)
(* numeral of n / 10^f with f digits after the point.                      *)
(***************************************************************************)
Number(n) == [number |-> n]

RECURSIVE Pow10(_)
Pow10(f) == IF f = 0 THEN 1 ELSE 10 * Pow10(f - 1)

\* toFixed rounding towards zero.
toFixedTruncating(num, den, fractionDigits) ==
    [digits |-> (num * Pow10(fractionDigits)) \div den,
     fractionDigits |-> fractionDigits]

\* (num / den).toFixed(fractionDigits) for num >= 0 and den > 0: the integer n
\* with n / 10^fractionDigits nearest to num / den, the larger one of two
\* that are equally near.  The quotient is taken exactly; the catalogs
\* explored have labour times that are multiples of 15 minutes, for which
\* rounding the double-precision quotient gives the same digits.
toFixed(num, den, fractionDigits) ==
    [digits |-> (2 * num * Pow10(fractionDigits) + den) \div (2 * den),
     fractionDigits |-> fractionDigits]

\* The stats of one building: { ...group, totalTimeInMinutes, goldPerHour,
\* recipesPerHour }.  x / (totalTimeInMinutes / 60) is
\* (x * 60) / totalTimeInMinutes.
BuildingStats(group) ==
    LET totalTimeInMinutes ==
            group.totalTime.hours * MinutesPerHour + group.totalTime.minutes
    IN  [key |-> group.key,
         recipes |-> group.recipes,
         totalTime |-> group.totalTime,
         totalGold |-> group.totalGold,
         totalRecipes |-> group.totalRecipes,
         totalTimeInMinutes |-> totalTimeInMinutes,
         goldPerHour |->
            IF totalTimeInMinutes > 0
            THEN toFixed(group.totalGold * MinutesPerHour, totalTimeInMinutes, 0)
            ELSE Number(0),
         recipesPerHour |->
            IF totalTimeInMinutes > 0
            THEN toFixed(group.totalRecipes * MinutesPerHour, totalTimeInMinutes, 1)
            ELSE Number(0)]

BuildingEfficiencyOf(groups) == [k \in DOMAIN groups |-> BuildingStats(groups[k])]

GetBuildingEfficiency ==
    /\ pc = "getBuildingEfficiency"
    /\ getBuildingEfficiency' = BuildingEfficiencyOf(getBuildingGroups)
    /\ pc' = "getTotalProductionCost"
    /\ UNCHANGED <<inputVars, resolverVars, calculateDependencyTree,
                   getExecutionOrder, getTotalMaterials, getBuildingGroups,
                   getTotalProductionCost>>

(***************************************************************************)
(* getTotalProductionCost.                                                 *)
(***************************************************************************)
\* selectedRecipe ? recipes[selectedRecipe] : null
selectedRecipeData ==
    IF selectedRecipe # "" THEN Lookup(recipes, selectedRecipe) ELSE Null

\* getExecutionOrder.reduce((sum, step) => sum + f(step), 0)
RECURSIVE Reduce(_, _, _, _)
Reduce(order, k, sum, what) ==
    IF k > Len(order) THEN sum
    ELSE Reduce(order, k + 1,
                sum + (IF what = "gold" THEN order[k].totalCost.gold
                       ELSE order[k].totalCost.labour.hours * MinutesPerHour
                            + order[k].totalCost.labour.minutes),
                what)

\* The fallback of an empty order taken without looking at selectedRecipeData.
TotalProductionCostOfAnyRoot(order, data) ==
    IF Len(order) = 0
    THEN [totalGold |-> 0, totalTimeHours |-> 0, totalTimeMinutes |-> 0,
          stepCount |-> 1]
    ELSE [totalGold |-> Reduce(order, 1, 0, "gold"),
          totalTimeHours |-> Reduce(order, 1, 0, "minutes") \div MinutesPerHour,
          totalTimeMinutes |-> Reduce(order, 1, 0, "minutes") % MinutesPerHour,
          stepCount |-> Len(order)]

\* The minutes of the total left as summed, hours taken from the steps.
TotalProductionCostOfNoCarry(order, data) ==
    IF Len(order) = 0
    THEN IF ~IsNull(data)
         THEN [totalGold |-> data.cost.gold,
               totalTimeHours |-> data.cost.labour.hours,
               totalTimeMinutes |-> data.cost.labour.minutes,
               stepCount |-> 1]
         ELSE [totalGold |-> 0, totalTimeHours |-> 0, totalTimeMinutes |-> 0,
               stepCount |-> 0]
    ELSE [totalGold |-> Reduce(order, 1, 0, "gold"),
          totalTimeHours |-> Reduce(order, 1, 0, "minutes") \div MinutesPerHour,
          totalTimeMinutes |-> Reduce(order, 1, 0, "minutes"),
          stepCount |-> Len(order)]

TotalProductionCostOf(order, data) ==
    IF Len(order) = 0
    THEN IF ~IsNull(data)
         THEN [totalGold |-> data.cost.gold,
               totalTimeHours |-> data.cost.labour.hours,
               totalTimeMinutes |-> data.cost.labour.minutes,
               stepCount |-> 1]
         ELSE [totalGold |-> 0, totalTimeHours |-> 0, totalTimeMinutes |-> 0,
               stepCount |-> 0]
    ELSE LET totalGold == Reduce(order, 1, 0, "gold")
             totalMinutes == Reduce(order, 1, 0, "minutes")
         IN  [totalGold |-> totalGold,
              totalTimeHours |-> totalMinutes \div MinutesPerHour,
              totalTimeMinutes |-> totalMinutes % MinutesPerHour,
              stepCount |-> Len(order)]

GetTotalProductionCost ==
    /\ pc = "getTotalProductionCost"
    /\ getTotalProductionCost' = TotalProductionCostOf(getExecutionOrder, selectedRecipeData)
    /\ pc' = "rendered"
    /\ UNCHANGED <<inputVars, resolverVars, calculateDependencyTree,
                   getExecutionOrder, getTotalMaterials, getBuildingGroups,
                   getBuildingEfficiency>>

(***************************************************************************)
(* The specification.                                                      *)
(***************************************************************************)
Next ==
    \/ \E newValue \in Selections : handleRecipeChange(newValue)
    \/ NoSelection
    \/ BuildTreeRootNotFound
    \/ BuildTreeRoot
    \/ IngredientMissing
    \/ IngredientCircular
    \/ IngredientVisited
    \/ IngredientExpand
    \/ BuildTreeReturn
    \/ GetExecutionOrder
    \/ GetTotalMaterials
    \/ GetBuildingGroups
    \/ GetBuildingEfficiency
    \/ GetTotalProductionCost

Spec == Init /\ [][Next]_vars

(***************************************************************************)
(* The recipe authoring form (RecipeGenerator): the values it handles.     *)
(* A JavaScript string is the sequence of its characters, so that          *)
(* parseInt, trim and replace are computed character by character.         *)
(***************************************************************************)
Digits == <<"0", "1", "2", "3", "4", "5", "6", "7", "8", "9">>

Letters == {"a", "b", "c", "d", "e", "f", "g", "h", "i", "j", "k", "l", "m",
            "n", "o", "p", "q", "r", "s", "t", "u", "v", "w", "x", "y", "z",
            "A", "B", "C", "D", "E", "F", "G", "H", "I", "J", "K", "L", "M",
            "N", "O", "P", "Q", "R", "S", "T", "U", "V", "W", "X", "Y", "Z"}

\* The white space trim removes, among the characters the texts below use.
WhiteSpace == {" "}

IsDigit(c) == \E d \in DOMAIN Digits : Digits[d] = c

DigitValue(c) == (CHOOSE d \in DOMAIN Digits : Digits[d] = c) - 1

\* The result of parseInt when the text does not start with an integer.
NaN == [nan |-> TRUE]

RECURSIVE trimStart(_)
trimStart(s) ==
    IF s # << >> /\ Head(s) \in WhiteSpace THEN trimStart(Tail(s)) ELSE s

RECURSIVE trimEnd(_)
trimEnd(s) ==
    IF s # << >> /\ s[Len(s)] \in WhiteSpace
    THEN trimEnd(SubSeq(s, 1, Len(s) - 1))
    ELSE s

\* String.prototype.trim
trim(s) == trimEnd(trimStart(s))

\* The value of the leading run of digits of s, continuing from acc.
RECURSIVE LeadingDigits(_, _)
LeadingDigits(s, acc) ==
    IF s # << >> /\ IsDigit(Head(s))
    THEN LeadingDigits(Tail(s), 10 * acc + DigitValue(Head(s)))
    ELSE acc

\* parseInt(text): leading white space is skipped, a sign is accepted, the
\* leading digits are read and what follows them is ignored; NaN when no
\* digit is there.
parseInt(text) ==
    LET s        == trimStart(text)
        negative == s # << >> /\ Head(s) = "-"
        signed   == s # << >> /\ Head(s) \in {"-", "+"}
        body     == IF signed THEN Tail(s) ELSE s
    IN  IF body = << >> \/ ~IsDigit(Head(body))
        THEN NaN
        ELSE Number(IF negative THEN 0 - LeadingDigits(body, 0)
                                ELSE LeadingDigits(body, 0))

\* value || fallback, for the value of a parseInt: NaN and 0 are falsy.
OrElse(value, fallback) ==
    IF value = NaN \/ value = Number(0) THEN fallback ELSE value.number

\* Math.min
Min(a, b) == IF a < b THEN a ELSE b

\* name.replace(/[^a-zA-Z0-9]/g, '')
replaceNonAlphanumeric(name) ==
    SelectSeq(name, LAMBDA c : c \in Letters \/ IsDigit(c))

\* The texts typed or chosen in the form, and the number of products the
\* explored forms go up to.  The ingredients are left as the form starts
\* them (none): handleIngredientChange, addIngredient and removeIngredient
\* write recipe.ingredients only, which nothing else of the form reads
\* before generateRecipeFile copies it.
MaxProducts == 2

ProductNameTexts == {<< >>, <<" ">>, <<"a", "-">>}

ProductQuantityTexts == {<< >>}

HoursTexts == {<< >>, <<"1">>}

MinutesTexts == {<<"x">>, <<"7", "5">>, <<"-", "5">>}

GoldTexts == {<<"0">>, <<"5">>, <<"-", "5">>}

BuildingChoices == {<< >>, <<"B1">>}


\* The selector's variables, which the form never writes.
selectorVars == <<recipes, selectedRecipe, pc, stack, tree, visited,
                  processing, memoVars, earlier>>

recipe == generatorState.recipe

fileName == generatorState.fileName

previewMode == generatorState.previewMode

generatedContent == generatorState.generatedContent

\* handleProductChange(index, field, value); the quantity field passes
\* parseInt(e.target.value) || 1, the name field the text itself.
handleProductChange(index, field, value) ==
    /\ index \in DOMAIN recipe.products
    /\ LET newProducts == [recipe.products EXCEPT ![index] =
                              IF field = "name"
                              THEN [@ EXCEPT !.name = value]
                              ELSE [@ EXCEPT !.quantity = value]]
       IN  generatorState' =
               [generatorState EXCEPT
                   !.recipe.products = newProducts,
                   !.fileName = IF field = "name" /\ index = 1
                                THEN replaceNonAlphanumeric(value)
                                ELSE @]
    /\ UNCHANGED <<download, selectorVars>>

\* addProduct(), for as long as the list is shorter than MaxProducts.
addProduct ==
    /\ Len(recipe.products) < MaxProducts
    /\ generatorState' =
           [generatorState EXCEPT
               !.recipe.products = Append(@, [name |-> << >>, quantity |-> 1])]
    /\ UNCHANGED <<download, selectorVars>>

\* products.filter((_, i) => i !== index)
RemoveAt(list, index) ==
    [k \in 1..(Len(list) - 1) |-> IF k < index THEN list[k] ELSE list[k + 1]]

\* removeProduct without its test of the length.
removeProductUnguarded(index) ==
    /\ index \in DOMAIN recipe.products
    /\ generatorState' =
           [generatorState EXCEPT !.recipe.products = RemoveAt(@, index)]
    /\ UNCHANGED <<download, selectorVars>>

\* removeProduct(index): the handler tests the length itself.
removeProduct(index) ==
    /\ index \in DOMAIN recipe.products
    /\ generatorState' =
           IF Len(recipe.products) > 1
           THEN [generatorState EXCEPT !.recipe.products = RemoveAt(@, index)]
           ELSE generatorState
    /\ UNCHANGED <<download, selectorVars>>

handleBuildingChange(newValue) ==
    /\ generatorState' = [generatorState EXCEPT !.recipe.buildings = newValue]
    /\ UNCHANGED <<download, selectorVars>>

\* onChange of Labour Hours
handleHoursChange(text) ==
    /\ generatorState' =
           [generatorState EXCEPT
               !.recipe.cost.labour.hours = OrElse(parseInt(text), 0)]
    /\ UNCHANGED <<download, selectorVars>>

\* onChange of Labour Minutes
handleMinutesChange(text) ==
    /\ generatorState' =
           [generatorState EXCEPT
               !.recipe.cost.labour.minutes = Min(59, OrElse(parseInt(text), 0))]
    /\ UNCHANGED <<download, selectorVars>>

\* onChange of Gold Cost
handleGoldChange(text) ==
    /\ generatorState' =
           [generatorState EXCEPT
               !.recipe.cost.gold = OrElse(parseInt(text), 0)]
    /\ UNCHANGED <<download, selectorVars>>

\* p.name.trim() as a condition: the trimmed name is not the empty string.
HasName(p) == trim(p.name) # << >>

\* The `disabled` of the Generate Preview button.
GeneratePreviewDisabled ==
    \/ ~(\E k \in DOMAIN recipe.products : HasName(recipe.products[k]))
    \/ Len(recipe.buildings) = 0
    \/ (recipe.cost.labour.hours = 0 /\ recipe.cost.labour.minutes = 0)
    \/ recipe.cost.gold = 0

\* A click on Generate Preview.
generateRecipeFile ==
    /\ ~GeneratePreviewDisabled
    /\ LET recipeData ==
               [products    |-> SelectSeq(recipe.products, HasName),
                ingredients |-> recipe.ingredients,
                buildings   |-> recipe.buildings,
                cost        |-> [labour |-> [hours   |-> recipe.cost.labour.hours,
                                             minutes |-> recipe.cost.labour.minutes],
                                 gold   |-> recipe.cost.gold]]
       IN  generatorState' =
               [generatorState EXCEPT
                   !.generatedContent = JSONstringify(recipeData),
                   !.previewMode = TRUE]
    /\ UNCHANGED <<download, selectorVars>>

\* `${fileName || 'recipe'}.json`
DownloadName ==
    (IF fileName = << >> THEN <<"r", "e", "c", "i", "p", "e">> ELSE fileName)
        \o <<".", "j", "s", "o", "n">>

\* A click on Download, which the preview card shows.
downloadFile ==
    /\ previewMode
    /\ download' = DownloadName
    /\ UNCHANGED <<generatorState, selectorVars>>

resetForm ==
    /\ generatorState' = InitialGeneratorState
    /\ UNCHANGED <<download, selectorVars>>

\* The form as first rendered, next to a selector that is left alone.
FormInit ==
    /\ recipes = ExampleCatalog
    /\ selectedRecipe = ""
    /\ pc = "idle"
    /\ stack = << >>
    /\ tree = << >>
    /\ visited = {}
    /\ processing = {}
    /\ calculateDependencyTree = NotComputed
    /\ getExecutionOrder = << >>
    /\ getTotalMaterials = NotComputed
    /\ getBuildingGroups = << >>
    /\ getBuildingEfficiency = << >>
    /\ getTotalProductionCost = NotComputed
    /\ earlier = NotComputed
    /\ generatorState = InitialGeneratorState
    /\ download = << >>

FormNext ==
    \/ \E index \in 1..MaxProducts :
           \/ \E value \in ProductNameTexts :
                  handleProductChange(index, "name", value)
           \/ \E text \in ProductQuantityTexts :
                  handleProductChange(index, "quantity", OrElse(parseInt(text), 1))
    \/ addProduct
    \/ \E index \in 1..MaxProducts : removeProduct(index)
    \/ \E newValue \in BuildingChoices : handleBuildingChange(newValue)
    \/ \E text \in HoursTexts : handleHoursChange(text)
    \/ \E text \in MinutesTexts : handleMinutesChange(text)
    \/ \E text \in GoldTexts : handleGoldChange(text)
    \/ generateRecipeFile
    \/ downloadFile
    \/ resetForm

FormSpec == FormInit /\ [][FormNext]_vars


TypeOK == pc \in {"idle", "calculateDependencyTree", "getExecutionOrder",
                  "getTotalMaterials", "getBuildingGroups",
                  "getBuildingEfficiency", "getTotalProductionCost", "rendered"}

(***************************************************************************)
(* Vocabulary of the properties, stated on the catalog and on the values   *)
(* the resolver produced.                                                  *)
(***************************************************************************)
\* Whether the tree, the order and the summaries of this render exist.
Resolved == calculateDependencyTree # NotComputed

OrderComputed ==
    pc \in {"getTotalMaterials", "getBuildingGroups", "getBuildingEfficiency",
            "getTotalProductionCost", "rendered"}

Rendered == pc = "rendered"

\* The positions in the catalog of the recipes with a product called name.
ProducersOf(name) ==
    {k \in DOMAIN recipes :
        \E prod \in {getRecipeProducts(recipes[k][2])[j] :
                        j \in DOMAIN getRecipeProducts(recipes[k][2])} :
            prod.name = name}

\* The producer that comes first in the catalog.
FirstProducer(name) ==
    recipes[CHOOSE k \in ProducersOf(name) : \A j \in ProducersOf(name) : k <= j]

\* The recipes a recipe leads to through the first producers of its
\* ingredients, and everything reachable that way.
ChosenEdges(recipeName) ==
    LET data == Lookup(recipes, recipeName)
    IN  {FirstProducer(data.ingredients[k].name)[1] :
            k \in {j \in DOMAIN data.ingredients :
                      ProducersOf(data.ingredients[j].name) # {}}}

RECURSIVE ReachFrom(_)
ReachFrom(S) ==
    LET more == S \cup UNION {ChosenEdges(r) : r \in S}
    IN  IF more = S THEN S ELSE ReachFrom(more)

\* A cycle of first-producer edges can be reached from the recipe.
CycleReachable(recipeName) ==
    \E r \in ReachFrom({recipeName}) : r \in ReachFrom(ChosenEdges(r))

SeqRange(seq) == {seq[k] : k \in DOMAIN seq}

\* The nodes of a resolved tree (sentinels left out), and its dependency
\* entries.
RECURSIVE NodesOf(_)
NodesOf(node) ==
    IF IsNull(node) \/ IsCircular(node) THEN {}
    ELSE {node} \cup UNION {NodesOf(d.recipe) : d \in SeqRange(node.dependencies)}

EntriesOf(node) == UNION {SeqRange(n.dependencies) : n \in NodesOf(node)}

\* The nodes under construction and the nodes they hold so far.
FrameNodes == {stack[k].node : k \in DOMAIN stack}

AllNodes ==
    UNION {NodesOf(n) : n \in FrameNodes}
    \cup (IF Resolved THEN NodesOf(calculateDependencyTree) ELSE {})

\* The sum of the function f over the set S.
RECURSIVE SumOver(_, _)
SumOver(S, f) ==
    IF S = {} THEN 0
    ELSE LET x == CHOOSE y \in S : TRUE
         IN  f[x] + SumOver(S \ {x}, f)

(***************************************************************************)
(* C1.  Dependency resolution terminates and returns, whatever the catalog *)
(* (acyclic, cyclic, self-consuming) and the root: while buildTree runs a  *)
(* step is always possible, and every step either returns from the         *)
(* outermost call or lowers a natural-number variant.                      *)
(***************************************************************************)
MostIngredients ==
    CHOOSE m \in {Len(recipes[k][2].ingredients) : k \in DOMAIN recipes} :
        \A k \in DOMAIN recipes : Len(recipes[k][2].ingredients) <= m

\* Work left: recipes not entered yet, ingredients the open frames have not
\* handled, and returns due.
Variant ==
    Cardinality(CatalogKeys \ (visited \cup processing)) * (MostIngredients + 2)
    + SumOver(DOMAIN stack,
              [k \in DOMAIN stack |-> Len(stack[k].node.ingredients) + 1 - stack[k].i])
    + Len(stack)

BuildTreeRunning == pc = "calculateDependencyTree" /\ stack # << >>

BuildTreeStep ==
    \/ IngredientMissing
    \/ IngredientCircular
    \/ IngredientVisited
    \/ IngredientExpand
    \/ BuildTreeReturn

BuildTreeProgress ==
    BuildTreeRunning
        => \/ pc' = "getExecutionOrder" /\ stack' = << >> /\ Resolved'
           \/ pc' = "calculateDependencyTree" /\ Variant' < Variant /\ Variant' >= 0

C1_Terminates ==
    /\ [][BuildTreeProgress]_vars
    /\ [](BuildTreeRunning => ENABLED BuildTreeStep)

\* A resolution has returned the tree of a root that consumes its own
\* product and also lies on a cycle through a second recipe.
C1_Witness ==
    /\ pc = "getExecutionOrder"
    /\ ~IsNull(calculateDependencyTree)
    /\ selectedRecipe \in ChosenEdges(selectedRecipe)
    /\ \E r \in ChosenEdges(selectedRecipe) \ {selectedRecipe} :
            selectedRecipe \in ChosenEdges(r)
    /\ Cardinality(visited) = 2

(***************************************************************************)
(* C2.  In the Execution Order every node comes after all the nodes stored *)
(* in its dependencies; with cycles in the catalog this holds for every    *)
(* dependency that is not a circular sentinel.                             *)
(***************************************************************************)
C2_DependenciesFirst ==
    OrderComputed =>
        \A k \in DOMAIN getExecutionOrder :
            \A d \in SeqRange(getExecutionOrder[k].dependencies) :
                ~IsCircular(d.recipe)
                    => \E j \in 1..(k - 1) : getExecutionOrder[j] = d.recipe

\* The order of a diamond: the root has two resolved dependencies, one of
\* which depends on the other.
C2_Witness ==
    /\ OrderComputed
    /\ Len(getExecutionOrder) = 3
    /\ Len(getExecutionOrder[3].dependencies) = 2
    /\ \A d \in SeqRange(getExecutionOrder[3].dependencies) : ~IsCircular(d.recipe)
    /\ \E d \in SeqRange(getExecutionOrder[2].dependencies) :
            d.recipe = getExecutionOrder[1]

(***************************************************************************)
(* C3.  A dependency entry holds a circular sentinel exactly when the      *)
(* first producer of its ingredient is on the path from the root to the    *)
(* node at the time the ingredient is processed; the sentinel is the bare  *)
(* object { circular: true }; and when a cycle of first-producer edges is  *)
(* reachable from the root, the tree returned holds such a sentinel and    *)
(* still has a node for every recipe reachable from the root.              *)
(***************************************************************************)
PathNames(k) == {stack[j].node.name : j \in 1..k}

SentinelsOnPath ==
    \A k \in DOMAIN stack :
        \A e \in SeqRange(stack[k].node.dependencies) :
            IsCircular(e.recipe) <=> FirstProducer(e.key)[1] \in PathNames(k)

SentinelsBare ==
    \A n \in AllNodes :
        \A e \in SeqRange(n.dependencies) :
            IsCircular(e.recipe) => DOMAIN e.recipe = {"circular"}

HasSentinel(root) == \E e \in EntriesOf(root) : IsCircular(e.recipe)

C3_CircularSentinel ==
    /\ SentinelsOnPath
    /\ SentinelsBare
    /\ (Resolved /\ ~IsNull(calculateDependencyTree))
        => /\ CycleReachable(selectedRecipe) => HasSentinel(calculateDependencyTree)
           /\ {n.name : n \in NodesOf(calculateDependencyTree)}
                = ReachFrom({selectedRecipe})

\* A tree whose root is on no cycle, with a sentinel below the root next to
\* a resolved dependency and an ingredient nothing produces.
C3_Witness ==
    /\ Resolved
    /\ ~IsNull(calculateDependencyTree)
    /\ selectedRecipe \notin ReachFrom(ChosenEdges(selectedRecipe))
    /\ \E e \in SeqRange(calculateDependencyTree.dependencies) :
        /\ ~IsCircular(e.recipe)
        /\ \E f \in SeqRange(e.recipe.dependencies) : IsCircular(f.recipe)
        /\ \/ Len(e.recipe.missingRecipes) > 0
           \/ \E f \in SeqRange(e.recipe.dependencies) : ~IsCircular(f.recipe)

(***************************************************************************)
(* C4.  In every dependency entry, quantityNeeded is the quantity of the   *)
(* ingredient times the multiplier of the node, and the entry's multiplier *)
(* is the least number of batches of the first producer that yields it:    *)
(* ceil(quantityNeeded / p), p being the quantity of the producer's        *)
(* product named like the ingredient, 1 when that quantity is 0.  Needing  *)
(* 10 with a yield of 3 gives 4.                                           *)
(***************************************************************************)
\* The nodes buildTree has finished.
CompletedNodes == {tree[k].node : k \in DOMAIN tree}

\* The ingredient that wrote the entry of a key: the last one so named.
WritingIngredient(node, key) ==
    LET at == {k \in DOMAIN node.ingredients : node.ingredients[k].name = key}
    IN  node.ingredients[CHOOSE k \in at : \A j \in at : j <= k]

\* What one run of the first producer yields of a product.
YieldOf(key) ==
    LET products == getRecipeProducts(FirstProducer(key)[2])
        at == {k \in DOMAIN products : products[k].name = key}
        quantity == products[CHOOSE k \in at : \A j \in at : k <= j].quantity
    IN  IF quantity = 0 THEN 1 ELSE quantity

\* The least m with m * p >= q.
LeastBatches(q, p) == CHOOSE m \in 0..q : m * p >= q /\ (m = 0 \/ (m - 1) * p < q)

C4_MultiplierPropagation ==
    /\ Ceil(10, 3) = 4
    /\ \A n \in CompletedNodes :
        \A e \in SeqRange(n.dependencies) :
            /\ e.quantityNeeded = WritingIngredient(n, e.key).quantity * n.multiplier
            /\ e.multiplier = LeastBatches(e.quantityNeeded, YieldOf(e.key))

\* An entry of a node that runs several times, whose need is no multiple of
\* the yield, so that the division rounds up.
C4_Witness ==
    \E n \in CompletedNodes :
        \E e \in SeqRange(n.dependencies) :
            /\ n.multiplier > 1
            /\ YieldOf(e.key) > 1
            /\ e.quantityNeeded % YieldOf(e.key) # 0
            /\ e.multiplier * YieldOf(e.key) > e.quantityNeeded

(***************************************************************************)
(* C5.  A root that is no key of the catalog: buildTree returns null, and  *)
(* so the Execution Order is empty, both material mappings and the         *)
(* building groups are empty, and the total cost is 0 gold, 0 hours,       *)
(* 0 minutes, 0 steps.                                                     *)
(***************************************************************************)
UnknownRoot == selectedRecipe # "" /\ selectedRecipe \notin CatalogKeys

C5_UnknownRoot ==
    UnknownRoot =>
        /\ Resolved => IsNull(calculateDependencyTree)
        /\ getExecutionOrder = << >>
        /\ getBuildingGroups = << >>
        /\ getTotalMaterials # NotComputed
            => getTotalMaterials = [withRecipes |-> << >>, withoutRecipes |-> << >>]
        /\ getTotalProductionCost # NotComputed
            => getTotalProductionCost =
                [totalGold |-> 0, totalTimeHours |-> 0, totalTimeMinutes |-> 0,
                 stepCount |-> 0]

\* The render of an unknown root is complete.
C5_Witness ==
    /\ Rendered
    /\ UnknownRoot
    /\ getTotalProductionCost # NotComputed
    /\ getTotalMaterials # NotComputed

(***************************************************************************)
(* C6.  For every finished node: the ingredients nothing produces are, in  *)
(* order, the entries of its missing list, each with the quantity of the   *)
(* ingredient times the multiplier of the node; the names of the other     *)
(* ingredients are the keys of its dependencies; and no name is in both.   *)
(***************************************************************************)
Unproduced(node) ==
    SelectSeq(node.ingredients, LAMBDA ing : ProducersOf(ing.name) = {})

C6_MissingOrDependency ==
    \A n \in CompletedNodes :
        /\ n.missingRecipes =
            [k \in DOMAIN Unproduced(n) |->
                [name |-> Unproduced(n)[k].name,
                 quantity |-> Unproduced(n)[k].quantity * n.multiplier]]
        /\ {e.key : e \in SeqRange(n.dependencies)} =
            {ing.name : ing \in {i \in SeqRange(n.ingredients) :
                                    ProducersOf(i.name) # {}}}
        /\ {e.key : e \in SeqRange(n.dependencies)}
            \cap {m.name : m \in SeqRange(n.missingRecipes)} = {}
        /\ \A ing \in SeqRange(n.ingredients) :
            \/ ing.name \in {e.key : e \in SeqRange(n.dependencies)}
            \/ ing.name \in {m.name : m \in SeqRange(n.missingRecipes)}

\* A node that runs several times, with a missing ingredient and a
\* dependency, in a tree that was resolved to its end.
C6_Witness ==
    /\ Resolved
    /\ \E n \in CompletedNodes :
        /\ n.multiplier > 1
        /\ Len(n.missingRecipes) > 0
        /\ Len(n.dependencies) > 0

(***************************************************************************)
(* C7.  The child of a dependency entry is never a producer other than     *)
(* the first recipe, in catalog order, that makes the ingredient.          *)
(***************************************************************************)
C7_FirstProducerWins ==
    \A n \in AllNodes :
        \A e \in SeqRange(n.dependencies) :
            ~IsCircular(e.recipe) => e.recipe.name = FirstProducer(e.key)[1]

\* An ingredient with two producers, of which the later one is the cheaper
\* and yields more, resolved to the first.
C7_Witness ==
    \E n \in CompletedNodes :
        \E e \in SeqRange(n.dependencies) :
            /\ ~IsCircular(e.recipe)
            /\ \E k \in ProducersOf(e.key) :
                /\ recipes[k][1] # e.recipe.name
                /\ recipes[k][2].cost.gold < e.recipe.cost.gold
                /\ \E prod \in SeqRange(getRecipeProducts(recipes[k][2])) :
                    prod.name = e.key /\ prod.quantity > YieldOf(e.key)

(***************************************************************************)
(* C8.  Base-recipe case: for a root without ingredients the Execution     *)
(* Order has length 0, and the total cost is the recipe's own gold and     *)
(* labour with step count 1.                                               *)
(***************************************************************************)
BaseRoot ==
    /\ selectedRecipe \in CatalogKeys
    /\ Len(Lookup(recipes, selectedRecipe).ingredients) = 0

C8_BaseRecipe ==
    (Rendered /\ BaseRoot) =>
        /\ Len(getExecutionOrder) = 0
        /\ getTotalProductionCost =
            [totalGold |-> Lookup(recipes, selectedRecipe).cost.gold,
             totalTimeHours |-> Lookup(recipes, selectedRecipe).cost.labour.hours,
             totalTimeMinutes |-> Lookup(recipes, selectedRecipe).cost.labour.minutes,
             stepCount |-> 1]

(***************************************************************************)
(* C9.  For a non-empty Execution Order the total cost has the sum of the  *)
(* steps' gold, the length of the order as step count, minutes within      *)
(* 0..59, and hours * 60 + minutes equal to the summed labour of the       *)
(* steps in minutes.                                                       *)
(***************************************************************************)
StepGold == [k \in DOMAIN getExecutionOrder |-> getExecutionOrder[k].totalCost.gold]

StepMinutes ==
    [k \in DOMAIN getExecutionOrder |->
        getExecutionOrder[k].totalCost.labour.hours * 60
        + getExecutionOrder[k].totalCost.labour.minutes]

C9_TotalCost ==
    (Rendered /\ Len(getExecutionOrder) > 0) =>
        /\ getTotalProductionCost.totalGold = SumOver(DOMAIN StepGold, StepGold)
        /\ getTotalProductionCost.stepCount = Len(getExecutionOrder)
        /\ getTotalProductionCost.totalTimeMinutes \in 0..59
        /\ getTotalProductionCost.totalTimeHours * 60
           + getTotalProductionCost.totalTimeMinutes
            = SumOver(DOMAIN StepMinutes, StepMinutes)

\* Three steps whose minutes add up to more than an hour.
C9_Witness ==
    /\ Rendered
    /\ Len(getExecutionOrder) = 3
    /\ SumOver(DOMAIN getExecutionOrder,
               [k \in DOMAIN getExecutionOrder |->
                    getExecutionOrder[k].totalCost.labour.minutes]) >= 60
    /\ getTotalProductionCost.totalGold > 0

(***************************************************************************)
(* C10.  The gold of the building groups.  As stated: the sum of totalGold *)
(* over the groups is the sum of cost.gold * multiplier over the resolved  *)
(* recipes that list at least one building.  As the code has it: a recipe  *)
(* counts once for every building it lists.                                *)
(***************************************************************************)
GroupGold == [k \in DOMAIN getBuildingGroups |-> getBuildingGroups[k].totalGold]

ResolvedNodes == NodesOf(calculateDependencyTree)

C10_GoldOncePerRecipe ==
    Rendered =>
        SumOver(DOMAIN GroupGold, GroupGold)
            = SumOver({n \in ResolvedNodes : Len(n.buildings) > 0},
                      [n \in ResolvedNodes |-> n.cost.gold * n.multiplier])

C10_GoldPerBuilding ==
    Rendered =>
        SumOver(DOMAIN GroupGold, GroupGold)
            = SumOver(ResolvedNodes,
                      [n \in ResolvedNodes |->
                            n.cost.gold * n.multiplier * Len(n.buildings)])

\* Groups that hold a recipe of two buildings that runs several times, and
\* a tree with a recipe of no building.
C10_Witness ==
    /\ Rendered
    /\ Len(getBuildingGroups) = 2
    /\ \E n \in ResolvedNodes : Len(n.buildings) = 2 /\ n.multiplier > 1 /\ n.cost.gold > 0
    /\ \E n \in ResolvedNodes : Len(n.buildings) = 0

(***************************************************************************)
(* C11.  The craftable mapping (withRecipes) has one key for every product *)
(* name of the resolved nodes without dependency entries, and its value is *)
(* the sum of quantity * multiplier over the products so named of those    *)
(* nodes; a node with a dependency entry adds nothing.                     *)
(***************************************************************************)
MaterialsComputed == getTotalMaterials # NotComputed

Leaves == {n \in ResolvedNodes : Len(n.dependencies) = 0}

\* The products called name of the nodes without dependencies.
LeafProducts(name) ==
    UNION {{<<n, k>> : k \in {j \in DOMAIN n.products : n.products[j].name = name}} :
              n \in Leaves}

C11_Craftable ==
    MaterialsComputed =>
        LET w == getTotalMaterials.withRecipes
        IN  /\ \A j, k \in DOMAIN w : w[j].key = w[k].key => j = k
            /\ {w[k].key : k \in DOMAIN w} =
                    UNION {{p.name : p \in SeqRange(n.products)} : n \in Leaves}
            /\ \A k \in DOMAIN w :
                    w[k].value =
                        SumOver(LeafProducts(w[k].key),
                                [x \in LeafProducts(w[k].key) |->
                                    x[1].products[x[2]].quantity * x[1].multiplier])

\* A product made by two nodes without dependencies, one of which runs
\* several times, under a root that has products and dependencies.
C11_Witness ==
    /\ Rendered
    /\ ~IsNull(calculateDependencyTree)
    /\ Len(calculateDependencyTree.products) > 0
    /\ Len(calculateDependencyTree.dependencies) > 0
    /\ \E k \in DOMAIN getTotalMaterials.withRecipes :
        /\ Cardinality({x[1] : x \in LeafProducts(getTotalMaterials.withRecipes[k].key)}) = 2
        /\ \E x \in LeafProducts(getTotalMaterials.withRecipes[k].key) :
                x[1].multiplier > 1 /\ x[1].products[x[2]].quantity > 0

(***************************************************************************)
(* C12.  The must-source mapping (withoutRecipes) has one key for every    *)
(* name in the missing lists of the resolved nodes, and its value is the   *)
(* sum of the quantities of all the missing entries so named, over the     *)
(* whole tree.                                                             *)
(***************************************************************************)
\* The missing entries called name, each with the node that holds it.
MissingEntries(name) ==
    UNION {{<<n, k>> : k \in {j \in DOMAIN n.missingRecipes :
                                  n.missingRecipes[j].name = name}} :
              n \in ResolvedNodes}

C12_MustSourceAdditive ==
    MaterialsComputed =>
        LET w == getTotalMaterials.withoutRecipes
        IN  /\ \A j, k \in DOMAIN w : w[j].key = w[k].key => j = k
            /\ {w[k].key : k \in DOMAIN w} =
                    UNION {{m.name : m \in SeqRange(n.missingRecipes)} :
                              n \in ResolvedNodes}
            /\ \A k \in DOMAIN w :
                    w[k].value =
                        SumOver(MissingEntries(w[k].key),
                                [x \in MissingEntries(w[k].key) |->
                                    x[1].missingRecipes[x[2]].quantity])

\* An ingredient nothing produces that two nodes of the tree take, in
\* different quantities.
C12_Witness ==
    /\ Rendered
    /\ \E k \in DOMAIN getTotalMaterials.withoutRecipes :
        \E x, y \in MissingEntries(getTotalMaterials.withoutRecipes[k].key) :
            /\ x[1] # y[1]
            /\ x[1].missingRecipes[x[2]].quantity # y[1].missingRecipes[y[2]].quantity

(***************************************************************************)
(* C13.  Resolving the root on screen once more, against the same catalog, *)
(* runs to its end again and yields the same tree (nodes, multipliers,     *)
(* depths, costs, dependencies, missing lists and circular sentinels), the *)
(* same Execution Order and the same summaries.                            *)
(***************************************************************************)
ResolvedAgain == earlier # NotComputed

GroupsComputed == pc \in {"getBuildingEfficiency", "getTotalProductionCost", "rendered"}

SameAsEarlier ==
    ResolvedAgain =>
        /\ selectedRecipe = earlier.selectedRecipe
        /\ Resolved => calculateDependencyTree = earlier.calculateDependencyTree
        /\ OrderComputed => getExecutionOrder = earlier.getExecutionOrder
        /\ MaterialsComputed => getTotalMaterials = earlier.getTotalMaterials
        /\ GroupsComputed => getBuildingGroups = earlier.getBuildingGroups
        /\ Rendered => RenderOf = earlier

\* The outermost call of buildTree, or the return before it.
EnterBuildTree == NoSelection \/ BuildTreeRootNotFound \/ BuildTreeRoot

ExampleResolved ==
    /\ Rendered
    /\ recipes = ExampleCatalog
    /\ selectedRecipe = "A"

\* The example with Log run `runs` times.
ExampleGives(runs) ==
    /\ Len(calculateDependencyTree.dependencies) = 1
    /\ calculateDependencyTree.dependencies[1].key = "Log"
    /\ calculateDependencyTree.dependencies[1].multiplier = runs
    /\ [k \in DOMAIN getExecutionOrder |->
            <<getExecutionOrder[k].name, getExecutionOrder[k].multiplier>>]
        = << <<"Log", runs>>, <<"A", 1>> >>
    /\ getTotalProductionCost.totalGold
        = getExecutionOrder[1].totalCost.gold + getExecutionOrder[2].totalCost.gold
    /\ getTotalMaterials.withRecipes = <<[key |-> "Log", value |-> runs]>>

C14_ExampleDemandFive == ExampleResolved => ExampleGives(10)

C14_ExampleOneRun == ExampleResolved => ExampleGives(2)

\* The example is on screen.
C14_Witness ==
    /\ ExampleResolved
    /\ Len(getExecutionOrder) = 2
    /\ getTotalProductionCost.stepCount = 2

(***************************************************************************)
(* C15.  In a catalog whose ingredient and product quantities are all      *)
(* positive, every node of the tree (finished or under construction) has   *)
(* a multiplier of at least 1, and the root has multiplier 1.              *)
(***************************************************************************)
PositiveQuantities ==
    \A k \in DOMAIN recipes :
        /\ \A ing \in SeqRange(recipes[k][2].ingredients) : ing.quantity >= 1
        /\ \A prod \in SeqRange(getRecipeProducts(recipes[k][2])) : prod.quantity >= 1

C15_PositiveMultiplier ==
    PositiveQuantities =>
        /\ \A n \in AllNodes \cup CompletedNodes : n.multiplier \in Nat \ {0}
        /\ stack # << >> => stack[1].node.multiplier = 1
        /\ (Resolved /\ ~IsNull(calculateDependencyTree))
            => calculateDependencyTree.multiplier = 1

\* A tree with a node that runs several times and a node that runs once
\* because one run yields more than is needed.
C15_Witness ==
    /\ PositiveQuantities
    /\ Resolved
    /\ ~IsNull(calculateDependencyTree)
    /\ \E n \in ResolvedNodes : n.multiplier > 1
    /\ \E e \in EntriesOf(calculateDependencyTree) :
        /\ ~IsCircular(e.recipe)
        /\ e.recipe.multiplier = 1
        /\ e.quantityNeeded < YieldOf(e.key)

(***************************************************************************)
(* C16.  The totalCost of every node is the cost of its recipe times the   *)
(* multiplier of the node, component by component: hours, minutes (which   *)
(* are not carried into the hours) and gold.                               *)
(***************************************************************************)
C16_TotalCostScaled ==
    \A n \in AllNodes \cup CompletedNodes :
        LET cost == Lookup(recipes, n.name).cost
        IN  n.totalCost =
                [labour |-> [hours |-> cost.labour.hours * n.multiplier,
                             minutes |-> cost.labour.minutes * n.multiplier],
                 gold |-> cost.gold * n.multiplier]

\* A finished node whose minutes, times its multiplier, pass the hour.
C16_Witness ==
    \E n \in CompletedNodes :
        /\ n.multiplier > 1
        /\ n.cost.labour.hours > 0
        /\ n.cost.gold > 0
        /\ n.totalCost.labour.minutes >= 60

(***************************************************************************)
(* C17.  No recipe appears twice in the Execution Order, and no element of *)
(* it is a circular sentinel.                                              *)
(***************************************************************************)
C17_OrderDistinct ==
    OrderComputed =>
        /\ \A j, k \in DOMAIN getExecutionOrder :
                getExecutionOrder[j].name = getExecutionOrder[k].name => j = k
        /\ \A k \in DOMAIN getExecutionOrder : ~IsCircular(getExecutionOrder[k])

\* The order of a tree in which one recipe is needed by the two others and
\* which holds a circular sentinel.
C17_Witness ==
    /\ OrderComputed
    /\ Len(getExecutionOrder) = 3
    /\ HasSentinel(calculateDependencyTree)
    /\ \A k \in 2..3 :
        \E d \in SeqRange(getExecutionOrder[k].dependencies) :
            d.recipe = getExecutionOrder[1]

(***************************************************************************)
(* C18.  The efficiency of the building groups.  A group whose labour time *)
(* is 0 minutes has goldPerHour and recipesPerHour equal to the number 0.  *)
(* As stated, the two are otherwise totalGold and totalRecipes divided by  *)
(* totalMinutes / 60.  As the code has it, they are the strings toFixed    *)
(* makes of those quotients: goldPerHour rounded to a whole number and     *)
(* recipesPerHour rounded to one digit after the point, halves upwards.    *)
(***************************************************************************)
EfficiencyComputed == pc \in {"getTotalProductionCost", "rendered"}

\* The labour time of the group of the same building, in minutes.
GroupMinutes(k) ==
    getBuildingGroups[k].totalTime.hours * 60 + getBuildingGroups[k].totalTime.minutes

IsNumber(v) == DOMAIN v = {"number"}

IsString(v) == DOMAIN v = {"digits", "fractionDigits"}

\* v is the number num / den itself.
ExactQuotient(v, num, den) ==
    \/ IsNumber(v) /\ v.number * den = num
    \/ IsString(v) /\ v.digits * den = num * Pow10(v.fractionDigits)

\* v is the numeral of num / den rounded to f digits after the point.
RoundedQuotient(v, num, den, f) ==
    /\ IsString(v)
    /\ v.fractionDigits = f
    /\ 2 * (v.digits * den - num * Pow10(f)) <= den
    /\ 2 * (num * Pow10(f) - v.digits * den) < den

ZeroTimeIsZero ==
    \A k \in DOMAIN getBuildingEfficiency :
        /\ getBuildingEfficiency[k].key = getBuildingGroups[k].key
        /\ getBuildingEfficiency[k].totalTimeInMinutes = GroupMinutes(k)
        /\ GroupMinutes(k) = 0
            => /\ getBuildingEfficiency[k].goldPerHour = Number(0)
               /\ getBuildingEfficiency[k].recipesPerHour = Number(0)

C18_EfficiencyExact ==
    EfficiencyComputed =>
        /\ DOMAIN getBuildingEfficiency = DOMAIN getBuildingGroups
        /\ ZeroTimeIsZero
        /\ \A k \in DOMAIN getBuildingEfficiency :
            GroupMinutes(k) > 0
                => /\ ExactQuotient(getBuildingEfficiency[k].goldPerHour,
                                     getBuildingGroups[k].totalGold * 60, GroupMinutes(k))
                   /\ ExactQuotient(getBuildingEfficiency[k].recipesPerHour,
                                     getBuildingGroups[k].totalRecipes * 60, GroupMinutes(k))

C18_EfficiencyRounded ==
    EfficiencyComputed =>
        /\ DOMAIN getBuildingEfficiency = DOMAIN getBuildingGroups
        /\ ZeroTimeIsZero
        /\ \A k \in DOMAIN getBuildingEfficiency :
            GroupMinutes(k) > 0
                => /\ RoundedQuotient(getBuildingEfficiency[k].goldPerHour,
                                       getBuildingGroups[k].totalGold * 60,
                                       GroupMinutes(k), 0)
                   /\ RoundedQuotient(getBuildingEfficiency[k].recipesPerHour,
                                       getBuildingGroups[k].totalRecipes * 60,
                                       GroupMinutes(k), 1)

\* A group that took gold and no labour time, of a tree of several recipes.
C18_Witness ==
    /\ EfficiencyComputed
    /\ Len(getExecutionOrder) > 1
    /\ \E k \in DOMAIN getBuildingEfficiency :
        /\ GroupMinutes(k) = 0
        /\ getBuildingGroups[k].totalGold > 0
        /\ getBuildingGroups[k].totalRecipes > 1

(***************************************************************************)
(* C19.  The depth of a node is its distance from the root: the root has   *)
(* depth 0, and every other node of the resolved tree has the least depth  *)
(* of the nodes that hold it in a dependency entry, plus 1.                *)
(***************************************************************************)
\* The nodes that hold n in a dependency entry.
ParentsOf(n) ==
    {p \in ResolvedNodes : \E e \in SeqRange(p.dependencies) : e.recipe = n}

Least(S) == CHOOSE m \in S : \A x \in S : m <= x

C19_DepthIsDistance ==
    (Resolved /\ ~IsNull(calculateDependencyTree)) =>
        /\ calculateDependencyTree.depth = 0
        /\ \A n \in ResolvedNodes \ {calculateDependencyTree} :
                n.depth = Least({p.depth + 1 : p \in ParentsOf(n)})

(***************************************************************************)
(* C20.  No step of the resolution, the linearization or the aggregations  *)
(* changes the catalog, and what the nodes share with the catalog (the     *)
(* ingredients, buildings, cost and products of their recipe) stays as the *)
(* catalog has it.                                                         *)
(***************************************************************************)
CatalogUnchanged == recipes' = recipes

SharedWithCatalog ==
    \A n \in AllNodes \cup CompletedNodes :
        LET recipeData == Lookup(recipes, n.name)
        IN  /\ n.ingredients = recipeData.ingredients
            /\ n.buildings = recipeData.buildings
            /\ n.cost = recipeData.cost
            /\ n.products = getRecipeProducts(recipeData)

C20_CatalogNotModified ==
    /\ [][CatalogUnchanged]_vars
    /\ []SharedWithCatalog

\* A render is complete whose tree has a recipe that runs several times,
\* costs gold and labour, and is listed in building groups whose minutes
\* were carried into hours.
C20_Witness ==
    /\ Rendered
    /\ \E n \in ResolvedNodes :
        /\ n # calculateDependencyTree
        /\ n.multiplier > 1
        /\ n.cost.gold > 0
        /\ Len(n.buildings) = 2
        /\ n.totalCost.labour.minutes >= 60
    /\ \A k \in DOMAIN getBuildingGroups : getBuildingGroups[k].totalTime.minutes < 60
    /\ Len(getBuildingGroups) = 2
    /\ Len(getTotalMaterials.withoutRecipes) > 0

(***************************************************************************)
(* C21.  Within one resolution a recipe is expanded at most once: a frame  *)
(* is only opened for a recipe that is neither resolved nor being          *)
(* resolved, every dependency entry that is no sentinel holds the node     *)
(* stored for its recipe (same multiplier, depth and subtree), and so no   *)
(* two different nodes have the same name.                                 *)
(***************************************************************************)
ExpandsOnlyNew ==
    Len(stack') > Len(stack)
        => stack'[Len(stack')].node.name \notin visited \cup processing

OneNodePerRecipe ==
    /\ \A n, m \in AllNodes \cup CompletedNodes : n.name = m.name => n = m
    /\ \A n \in AllNodes \cup CompletedNodes :
        \A e \in SeqRange(n.dependencies) :
            ~IsCircular(e.recipe) => e.recipe = TreeGet(tree, e.recipe.name)

C21_ExpandedOnce ==
    /\ [][ExpandsOnlyNew]_vars
    /\ []OneNodePerRecipe

\* A recipe that two nodes take, which need different numbers of its runs:
\* both entries hold the one node.
C21_Witness ==
    /\ Resolved
    /\ \E d, e \in EntriesOf(calculateDependencyTree) :
        /\ ~IsCircular(d.recipe)
        /\ d.recipe = e.recipe
        /\ d.multiplier # e.multiplier

(***************************************************************************)
(* C22.  The processing set is at every step the set of the recipes on the *)
(* recursion path (the frames of buildTree), it shares no recipe with the  *)
(* visited set, and it is empty whenever buildTree is not running: every   *)
(* return, the one of a recipe that is not found included, has removed     *)
(* its recipe.                                                             *)
(***************************************************************************)
C22_ProcessingIsPath ==
    /\ processing = {stack[k].node.name : k \in DOMAIN stack}
    /\ Cardinality(processing) = Len(stack)
    /\ processing \cap visited = {}
    /\ pc # "calculateDependencyTree" => processing = {}

\* Two recipes on the path while a third has been resolved and returned.
C22_Witness ==
    /\ Len(stack) = 2
    /\ Cardinality(processing) = 2
    /\ Cardinality(visited) = 1

(***************************************************************************)
(* C23.  There is one group for every building that a resolved recipe      *)
(* lists.  Its totalRecipes is the number of resolved recipes that list    *)
(* the building, its totalGold the sum of their cost.gold * multiplier,    *)
(* its minutes are within 0..59, and hours * 60 + minutes is the sum of    *)
(* their (hours * 60 + minutes) * multiplier.                              *)
(***************************************************************************)
\* The resolved recipes that list the building.
ListedIn(b) == {n \in ResolvedNodes : b \in SeqRange(n.buildings)}

C23_BuildingGroupTotals ==
    GroupsComputed =>
        LET g == getBuildingGroups
        IN  /\ \A j, k \in DOMAIN g : g[j].key = g[k].key => j = k
            /\ {g[k].key : k \in DOMAIN g} =
                    UNION {SeqRange(n.buildings) : n \in ResolvedNodes}
            /\ \A k \in DOMAIN g :
                /\ g[k].totalRecipes = Cardinality({n.name : n \in ListedIn(g[k].key)})
                /\ g[k].totalGold =
                        SumOver(ListedIn(g[k].key),
                                [n \in ListedIn(g[k].key) |-> n.cost.gold * n.multiplier])
                /\ g[k].totalTime.minutes \in 0..59
                /\ g[k].totalTime.hours * 60 + g[k].totalTime.minutes =
                        SumOver(ListedIn(g[k].key),
                                [n \in ListedIn(g[k].key) |->
                                    (n.cost.labour.hours * 60 + n.cost.labour.minutes)
                                    * n.multiplier])

\* A group of several recipes whose minutes passed the hour and were
\* carried, next to a group of fewer recipes.
C23_Witness ==
    /\ GroupsComputed
    /\ Len(getBuildingGroups) = 2
    /\ getBuildingGroups[1].totalRecipes # getBuildingGroups[2].totalRecipes
    /\ \E k \in DOMAIN getBuildingGroups :
        /\ getBuildingGroups[k].totalRecipes >= 2
        /\ SumOver(ListedIn(getBuildingGroups[k].key),
                    [n \in ListedIn(getBuildingGroups[k].key) |->
                        n.cost.labour.minutes * n.multiplier]) >= 60
        /\ getBuildingGroups[k].totalTime.minutes > 0

(***************************************************************************)
(* C24.  The multiplier of a node satisfies every entry that holds it: the *)
(* yield of the ingredient per run times the node's multiplier is at least *)
(* the entry's quantityNeeded, and the node's multiplier is the multiplier *)
(* recorded in the entry, also for a recipe that several entries hold.     *)
(***************************************************************************)
C24_MultiplierMeetsDemand ==
    (Resolved /\ ~IsNull(calculateDependencyTree)) =>
        \A e \in EntriesOf(calculateDependencyTree) :
            ~IsCircular(e.recipe)
                => /\ YieldOf(e.key) * e.recipe.multiplier >= e.quantityNeeded
                   /\ e.recipe.multiplier = e.multiplier

(***************************************************************************)
(* C25.  For a root that is a key of the catalog the Execution Order is    *)
(* not empty, its last element is the root node, and its recipes are the   *)
(* nodes reachable from the root through dependencies; collectMaterials    *)
(* and processRecipeForBuildings visit the same recipes.                   *)
(***************************************************************************)
NamesOf(nodes) == {n.name : n \in nodes}

MaterialsVisited ==
    collectMaterials(calculateDependencyTree,
                     [withRecipes |-> << >>, withoutRecipes |-> << >>,
                      visited |-> {}]).visited

BuildingsVisited ==
    processRecipeForBuildings(calculateDependencyTree,
                              [groups |-> << >>, visited |-> {}]).visited

AcyclicRoot ==
    /\ selectedRecipe \in CatalogKeys
    /\ ~CycleReachable(selectedRecipe)

C26_NoFalseCircular ==
    AcyclicRoot =>
        \A n \in AllNodes \cup CompletedNodes :
            \A e \in SeqRange(n.dependencies) : ~IsCircular(e.recipe)

\* A resolved tree without a cycle in which two nodes take the same recipe.
C26_Witness ==
    /\ Resolved
    /\ AcyclicRoot
    /\ Len(calculateDependencyTree.dependencies) = 2
    /\ \E n \in ResolvedNodes \ {calculateDependencyTree} :
        \E d \in SeqRange(n.dependencies) :
            \E e \in SeqRange(calculateDependencyTree.dependencies) :
                d.recipe = e.recipe

(***************************************************************************)
(* C27.  In the recipe authoring form, after any edits of the Labour       *)
(* Minutes field (an integer or a text that is no number), the stored      *)
(* recipe.cost.labour.minutes is an integer from 0 to 59.                  *)
(***************************************************************************)
C27_MinutesInRange == recipe.cost.labour.minutes \in 0..59

(***************************************************************************)
(* C28.  A preview is generated only from a form in which a product has a  *)
(* name that is not blank, a building is selected, the labour time is      *)
(* greater than 0 and the gold cost is greater than 0, and the generated   *)
(* content lists only products whose name is not blank.  The generated     *)
(* content is the form as it was at the click, so the statement is made on *)
(* it.                                                                     *)
(***************************************************************************)
C28_PreviewOnlyWhenComplete ==
    previewMode =>
        LET data == generatedContent.json
        IN  /\ Len(data.products) >= 1
            /\ \A k \in DOMAIN data.products : HasName(data.products[k])
            /\ Len(data.buildings) >= 1
            /\ MinutesPerHour * data.cost.labour.hours + data.cost.labour.minutes > 0
            /\ data.cost.gold > 0

(***************************************************************************)
(* C29.  Whatever addProduct, removeProduct, handleProductChange and       *)
(* resetForm did, starting from the first render of the form, the products *)
(* list has at least one entry: removeProduct leaves a one-element list as *)
(* it is.                                                                  *)
(***************************************************************************)
C29_ProductsNeverEmpty == Len(recipe.products) >= 1

\* One product is left after a removal: the file name is not the one the
\* product's name gives, which only the removal of the first of several
\* products brings about.
C29_Witness ==
    /\ Len(recipe.products) = 1
    /\ HasName(recipe.products[1])
    /\ fileName # replaceNonAlphanumeric(recipe.products[1].name)

(***************************************************************************)
(* C30.  Whatever addProduct, removeProduct, handleProductChange and       *)
(* resetForm did, starting from the first render of the form, fileName is  *)
(* the name of the first product with every character that is neither a    *)
(* letter nor a digit removed.                                             *)
(***************************************************************************)
C30_FileNameFollowsFirstProduct ==
    Len(recipe.products) >= 1 =>
        fileName = replaceNonAlphanumeric(recipe.products[1].name)

====
